---- MODULE Spec2Model ----
(***************************************************************************)
(* TESS PRF retrieval (interm_tess_prf_retrieve.ipynb): pathLookup,        *)
(* readOnePrfFitsFile, determineFourClosestPrfLoc,                         *)
(* getOffsetsFromPixelFractions, getRegSampledPrfFitsByOffset,             *)
(* interpolatePrf and the two main functions getNearestPrfFits and         *)
(* getPrfAtColRowFits.                                                     *)
(*                                                                         *)
(* Numbers.  A detector coordinate (col, row) is a double that is a        *)
(* multiple of 1/Den pixel, held as its integer numerator.  With Den a     *)
(* power of two every such value, its remainder modulo 1, its product with *)
(* gridSize and its difference to a grid position are exact in double      *)
(* precision, so the coordinate arithmetic of the code is modelled         *)
(* exactly.  Pixel values and interpolation weights are binary floating    *)
(* point numbers with a MantBits-bit significand, held as integer          *)
(* multiples of the smallest positive number 2^-FracBits; every pixel      *)
(* operation (-, *, +, /) rounds its exact result to nearest, ties to      *)
(* even, as numpy does on float arrays.  Values are finite.                *)
(***************************************************************************)
EXTENDS Integers, Sequences, FiniteSets, TLC

\* ------------------------------------------------------------ bounds
\* Coordinates are multiples of 1/Den pixel.
Den == 64
\* Significand width of the pixel floating point format.
MantBits == 4
\* The pixel value 1.0 is 2^FracBits units.
FracBits == 4
\* Side of a regularly sampled PRF image of a well-formed file (13 in the
\* mission's files; the code derives it from the array's shape).
NPix == 2
\* Number of different file contents (seeds) of the disk.
NSeeds == 2
\* Detector numbers tried for ccd and camera: 0 .. MaxId.
MaxId == 5
\* Sector numbers tried: -1 .. MaxSector.
MaxSector == 5

\* ------------------------------------------------------------ program constants
gridSize == 9
\* Variant: a column position listed twice.
posCols_Repeated == <<45, 45, 1069, 1580, 2092>>

posRows == <<1, 513, 1025, 1536, 2048>>
posCols == <<45, 557, 1069, 1580, 2092>>

\* ------------------------------------------------------------ arithmetic
Abs(x) == IF x < 0 THEN -x ELSE x

Sign(x) == IF x < 0 THEN -1 ELSE 1

Pow2(k) == 2 ^ k

One == Pow2(FracBits)

\* n/d for n >= 0, d > 0, rounded to the nearest integer, ties to the even one
\* (np.round, and the rounding of every IEEE operation).
RoundHalfEven(n, d) ==
    LET q == n \div d
        r == n % d
    IN  IF 2 * r < d THEN q
        ELSE IF 2 * r > d THEN q + 1
        ELSE IF q % 2 = 0 THEN q ELSE q + 1

\* The least k >= 0 with a / d < 2^(MantBits + k): the exponent of the float
\* nearest to a/d, a >= 0, d > 0.
RECURSIVE FloatExp(_, _, _)
FloatExp(a, d, k) ==
    IF a < Pow2(MantBits) * d * Pow2(k) THEN k ELSE FloatExp(a, d, k + 1)

\* The rational num/den (in units), den # 0, rounded to the pixel format.
Fl(num, den) ==
    LET s == Sign(num) * Sign(den)
        a == Abs(num)
        d == Abs(den)
        k == FloatExp(a, d, 0)
    IN  s * RoundHalfEven(a, d * Pow2(k)) * Pow2(k)

FSub(x, y) == Fl(x - y, 1)

FAdd(x, y) == Fl(x + y, 1)

FMul(x, y) == Fl(x * y, One)

\* A quotient of two exact coordinate differences, as a pixel-format float.
FDiv(num, den) == Fl(num * One, den)

\* int(x) of Python for the float num/den, den > 0: truncation toward zero.
PyInt(num, den) == Sign(num) * (Abs(num) \div den)

\* Variant: the remainder of C's fmod, which has the sign of the dividend.
RemainderOne_Fmod(n) == Sign(n) * (Abs(n) % Den)

\* np.remainder(x, 1) for the double x = n/Den: the result has the sign of the
\* divisor, so it is the numerator n mod Den, in [0, Den).
RemainderOne(n) == n % Den

\* ceil(n/d), n >= 0, d > 0: np.arange(x) has ceil(x) elements.
CeilDiv(n, d) == (n + d - 1) \div d

\* ------------------------------------------------------------ results
Return(v) == [kind |-> "ok", val |-> v]

Raise(e) == [kind |-> "error", err |-> e]

NoResult == [kind |-> "none"]

\* ------------------------------------------------------------ pathLookup
\* Variant: the sector test off by one (sector 0 accepted).
pathLookup_SectorZero(ccd, camera, sector) ==
    IF sector < 0 THEN Raise("ValueError: Sector must be greater than 0.")
    ELSE IF (camera > 4) \/ (ccd > 4)
    THEN Raise("ValueError: Camera or CCD is larger than 4.")
    ELSE Return([datestring |-> "2018243163600", add_path |-> "/start_s0001/"])

\* Variant: sector 4 still takes the branch of the first sectors.
pathLookup_Boundary(ccd, camera, sector) ==
    IF sector < 1 THEN Raise("ValueError: Sector must be greater than 0.")
    ELSE IF (camera > 4) \/ (ccd > 4)
    THEN Raise("ValueError: Camera or CCD is larger than 4.")
    ELSE IF sector <= 4
    THEN Return([datestring |->
                    IF camera >= 3 THEN "2018243163601"
                    ELSE IF (camera = 2) /\ (ccd = 4) THEN "2018243163601"
                    ELSE "2018243163600",
                 add_path |-> "/start_s0001/"])
    ELSE Return([datestring |->
                    IF (camera = 1) /\ (ccd >= 2) THEN "2019107181901"
                    ELSE IF camera = 2 THEN "2019107181901"
                    ELSE IF (camera = 3) /\ (ccd >= 2) THEN "2019107181902"
                    ELSE IF camera = 4 THEN "2019107181902"
                    ELSE "2019107181900",
                 add_path |-> "/start_s0004/"])

\* Variant: without the case of camera 2, ccd 4 in the first sectors.
pathLookup_NoCcdCase(ccd, camera, sector) ==
    IF sector < 1 THEN Raise("ValueError: Sector must be greater than 0.")
    ELSE IF (camera > 4) \/ (ccd > 4)
    THEN Raise("ValueError: Camera or CCD is larger than 4.")
    ELSE IF sector <= 3
    THEN Return([datestring |->
                    IF camera >= 3 THEN "2018243163601"
                    ELSE "2018243163600",
                 add_path |-> "/start_s0001/"])
    ELSE Return([datestring |->
                    IF (camera = 1) /\ (ccd >= 2) THEN "2019107181901"
                    ELSE IF camera = 2 THEN "2019107181901"
                    ELSE IF (camera = 3) /\ (ccd >= 2) THEN "2019107181902"
                    ELSE IF camera = 4 THEN "2019107181902"
                    ELSE "2019107181900",
                 add_path |-> "/start_s0004/"])

pathLookup(ccd, camera, sector) ==
    IF sector < 1 THEN Raise("ValueError: Sector must be greater than 0.")
    ELSE IF (camera > 4) \/ (ccd > 4)
    THEN Raise("ValueError: Camera or CCD is larger than 4.")
    ELSE IF sector <= 3
    THEN Return([datestring |->
                    IF camera >= 3 THEN "2018243163601"
                    ELSE IF (camera = 2) /\ (ccd = 4) THEN "2018243163601"
                    ELSE "2018243163600",
                 add_path |-> "/start_s0001/"])
    ELSE Return([datestring |->
                    IF (camera = 1) /\ (ccd >= 2) THEN "2019107181901"
                    ELSE IF camera = 2 THEN "2019107181901"
                    ELSE IF (camera = 3) /\ (ccd >= 2) THEN "2019107181902"
                    ELSE IF camera = 4 THEN "2019107181902"
                    ELSE "2019107181900",
                 add_path |-> "/start_s0004/"])

\* ------------------------------------------------------------ determineFourClosestPrfLoc
\* Variant: equal values in reverse index order.
ArgSort_HighFirst(d) ==
    LET Before(j, i) == d[j] < d[i] \/ (d[j] = d[i] /\ j > i)
        Rank(i) == Cardinality({j \in DOMAIN d : Before(j, i)})
    IN  [k \in DOMAIN d |-> CHOOSE i \in DOMAIN d : Rank(i) = k - 1]

\* Variant: the indices in descending order of the values.
ArgSort_Descending(d) ==
    LET Before(j, i) == d[j] > d[i] \/ (d[j] = d[i] /\ j < i)
        Rank(i) == Cardinality({j \in DOMAIN d : Before(j, i)})
    IN  [k \in DOMAIN d |-> CHOOSE i \in DOMAIN d : Rank(i) = k - 1]

\* np.argsort of a short array: indices ordered by value, equal values in
\* index order (the insertion sort numpy uses below 17 elements is stable).
ArgSort(d) ==
    LET Before(j, i) == d[j] < d[i] \/ (d[j] = d[i] /\ j < i)
        Rank(i) == Cardinality({j \in DOMAIN d : Before(j, i)})
    IN  [k \in DOMAIN d |-> CHOOSE i \in DOMAIN d : Rank(i) = k - 1]

\* Variant: the difference without np.abs.
AbsDiff_Signed(pos, n) == [i \in DOMAIN pos |-> pos[i] * Den - n]

\* np.abs(pos - x) for the double x = n/Den, in units of 1/Den.
AbsDiff(pos, n) == [i \in DOMAIN pos |-> Abs(pos[i] * Den - n)]

\* Variant: the loop over the columns is the outer one.
determineFourClosestPrfLoc_ColsOuter(col, row) ==
    LET difcol == AbsDiff(posCols, col)
        difrow == AbsDiff(posRows, row)
        rs == [k \in 1..2 |-> posRows[ArgSort(difrow)[k]]]
        cs == [k \in 1..2 |-> posCols[ArgSort(difcol)[k]]]
    IN  << <<cs[1], rs[1]>>, <<cs[1], rs[2]>>, <<cs[2], rs[1]>>, <<cs[2], rs[2]>> >>

\* The list of four (col, row) pairs; col and row are numerators over Den.
determineFourClosestPrfLoc(col, row) ==
    LET difcol == AbsDiff(posCols, col)
        difrow == AbsDiff(posRows, row)
        rs == [k \in 1..2 |-> posRows[ArgSort(difrow)[k]]]
        cs == [k \in 1..2 |-> posCols[ArgSort(difcol)[k]]]
    IN  << <<cs[1], rs[1]>>, <<cs[2], rs[1]>>, <<cs[1], rs[2]>>, <<cs[2], rs[2]>> >>

\* ------------------------------------------------------------ getOffsetsFromPixelFractions
\* Variant: halves are rounded up instead of to the even neighbour.
OffsetOfFraction_HalfUp(f) ==
    PyInt(gridSize - ((2 * gridSize * f + Den) \div (2 * Den)) - 1, 1)

\* gridSize - np.round(gridSize * frac) - 1, then int(); frac = f/Den.
OffsetOfFraction(f) ==
    PyInt(gridSize - RoundHalfEven(gridSize * f, Den) - 1, 1)

getOffsetsFromPixelFractions(col, row) ==
    LET colFrac == RemainderOne(col)
        rowFrac == RemainderOne(row)
    IN  <<OffsetOfFraction(colFrac), OffsetOfFraction(rowFrac)>>

\* ------------------------------------------------------------ getRegSampledPrfFitsByOffset
\* An array is [shape |-> <<rows, cols>>, data |-> [0..rows-1 -> [0..cols-1 -> value]]].
\* A Python index into an axis of length n: valid in [-n, n-1], a negative
\* one counts from the end.
IndexOk(i, n) == (-n <= i) /\ (i < n)

PyIndex(i, n) == IF i < 0 THEN i + n ELSE i

\* Variant: the two offsets exchanged (the column offset addresses the rows).
getRegSampledPrfFitsByOffset_Swapped(prfArray, colOffset, rowOffset) ==
    IF ~(colOffset < gridSize) \/ ~(rowOffset < gridSize)
    THEN Raise("AssertionError")
    ELSE
    LET rows == prfArray.shape[1]
        cols == prfArray.shape[2]
        nColOut == CeilDiv(rows, gridSize)
        nRowOut == CeilDiv(cols, gridSize)
        iCol == [k \in 0..(nColOut - 1) |-> rowOffset + k * gridSize]
        iRow == [k \in 0..(nRowOut - 1) |-> colOffset + k * gridSize]
    IN  IF \E k \in DOMAIN iRow : ~IndexOk(iRow[k], rows)
        THEN Raise("IndexError")
        ELSE IF \E k \in DOMAIN iCol : ~IndexOk(iCol[k], cols)
        THEN Raise("IndexError")
        ELSE Return([shape |-> <<nRowOut, nColOut>>,
                     data |-> [a \in 0..(nRowOut - 1) |->
                                [b \in 0..(nColOut - 1) |->
                                   prfArray.data[PyIndex(iRow[a], rows)]
                                                [PyIndex(iCol[b], cols)]]]])

\* Variant: the two assertions admit an offset equal to gridSize.
getRegSampledPrfFitsByOffset_LaxAssert(prfArray, colOffset, rowOffset) ==
    IF ~(colOffset <= gridSize) \/ ~(rowOffset <= gridSize)
    THEN Raise("AssertionError")
    ELSE
    LET rows == prfArray.shape[1]
        cols == prfArray.shape[2]
        nColOut == CeilDiv(rows, gridSize)
        nRowOut == CeilDiv(cols, gridSize)
        iCol == [k \in 0..(nColOut - 1) |-> colOffset + k * gridSize]
        iRow == [k \in 0..(nRowOut - 1) |-> rowOffset + k * gridSize]
    IN  IF \E k \in DOMAIN iRow : ~IndexOk(iRow[k], rows)
        THEN Raise("IndexError")
        ELSE IF \E k \in DOMAIN iCol : ~IndexOk(iCol[k], cols)
        THEN Raise("IndexError")
        ELSE Return([shape |-> <<nRowOut, nColOut>>,
                     data |-> [a \in 0..(nRowOut - 1) |->
                                [b \in 0..(nColOut - 1) |->
                                   prfArray.data[PyIndex(iRow[a], rows)]
                                                [PyIndex(iCol[b], cols)]]]])

getRegSampledPrfFitsByOffset(prfArray, colOffset, rowOffset) ==
    IF ~(colOffset < gridSize) \/ ~(rowOffset < gridSize)
    THEN Raise("AssertionError")
    ELSE
    LET rows == prfArray.shape[1]
        cols == prfArray.shape[2]
        \* nColOut, nRowOut = prfArray.shape, each divided by float(gridSize);
        \* np.arange of it has ceil(.) elements
        nColOut == CeilDiv(rows, gridSize)
        nRowOut == CeilDiv(cols, gridSize)
        iCol == [k \in 0..(nColOut - 1) |-> colOffset + k * gridSize]
        iRow == [k \in 0..(nRowOut - 1) |-> rowOffset + k * gridSize]
    IN  IF \E k \in DOMAIN iRow : ~IndexOk(iRow[k], rows)
        THEN Raise("IndexError")
        ELSE IF \E k \in DOMAIN iCol : ~IndexOk(iCol[k], cols)
        THEN Raise("IndexError")
        ELSE Return([shape |-> <<nRowOut, nColOut>>,
                     data |-> [a \in 0..(nRowOut - 1) |->
                                [b \in 0..(nColOut - 1) |->
                                   prfArray.data[PyIndex(iRow[a], rows)]
                                                [PyIndex(iCol[b], cols)]]]])

\* ------------------------------------------------------------ interpolatePrf
\* Variant: the two end points exchanged.
Lerp_Exchanged(a, b, t) == FAdd(b, FMul(FSub(a, b), t))

\* a + (b - a) * t on pixel-format floats, each operation rounded.
Lerp(a, b, t) == FAdd(a, FMul(FSub(b, a), t))

\* Variant: the interpolation across the rows starts from the second row group.
InterpolateImages_RowSwap(p11, p21, p12, p22, dCol, dRow) ==
    [shape |-> p11.shape,
     data |-> [i \in 0..(p11.shape[1] - 1) |->
                [j \in 0..(p11.shape[2] - 1) |->
                   LET tmp1 == FAdd(p11.data[i][j],
                                    FMul(FSub(p21.data[i][j], p11.data[i][j]), dCol))
                       tmp2 == FAdd(p12.data[i][j],
                                    FMul(FSub(p22.data[i][j], p12.data[i][j]), dCol))
                   IN  FAdd(tmp2, FMul(FSub(tmp1, tmp2), dRow))]]]

\* Variant: the two weights are clamped to [0, 1].
InterpolateImages_Clamped(p11, p21, p12, p22, dCol, dRow) ==
    LET Clamp(t) == IF t < 0 THEN 0 ELSE IF t > One THEN One ELSE t
    IN  [shape |-> p11.shape,
         data |-> [i \in 0..(p11.shape[1] - 1) |->
                    [j \in 0..(p11.shape[2] - 1) |->
                       LET tmp1 == Lerp(p11.data[i][j], p21.data[i][j], Clamp(dCol))
                           tmp2 == Lerp(p12.data[i][j], p22.data[i][j], Clamp(dCol))
                       IN  FAdd(tmp1, FMul(FSub(tmp2, tmp1), Clamp(dRow)))]]]

\* The arithmetic of interpolatePrf on four images of one shape.
InterpolateImages(p11, p21, p12, p22, dCol, dRow) ==
    [shape |-> p11.shape,
     data |-> [i \in 0..(p11.shape[1] - 1) |->
                [j \in 0..(p11.shape[2] - 1) |->
                   LET tmp1 == Lerp(p11.data[i][j], p21.data[i][j], dCol)
                       tmp2 == Lerp(p12.data[i][j], p22.data[i][j], dCol)
                   IN  FAdd(tmp1, FMul(FSub(tmp2, tmp1), dRow))]]]

\* Variant: on a degenerate list of grid points the first image is returned.
interpolatePrf_Fallback(regPrfArray, col, row, imagePos) ==
    IF Len(regPrfArray) # 4 THEN Raise("ValueError: unpack")
    ELSE
    LET p11 == regPrfArray[1]
        p21 == regPrfArray[2]
        p12 == regPrfArray[3]
        p22 == regPrfArray[4]
        c0 == imagePos[1][1]
        c1 == imagePos[2][1]
        r0 == imagePos[1][2]
        r1 == imagePos[3][2]
    IN  IF (c0 = c1) \/ (r0 = r1) THEN Return(p11)
        ELSE IF \E k \in 2..4 : regPrfArray[k].shape # p11.shape
        THEN Raise("ValueError: broadcast")
        ELSE Return(InterpolateImages(p11, p21, p12, p22,
                        FDiv(col - c0 * Den, (c1 - c0) * Den),
                        FDiv(row - r0 * Den, (r1 - r0) * Den)))

\* Variant: the column weight is measured from the second column, c1.
interpolatePrf_WeightFromSecond(regPrfArray, col, row, imagePos) ==
    IF Len(regPrfArray) # 4 THEN Raise("ValueError: unpack")
    ELSE
    LET p11 == regPrfArray[1]
        p21 == regPrfArray[2]
        p12 == regPrfArray[3]
        p22 == regPrfArray[4]
        c0 == imagePos[1][1]
        c1 == imagePos[2][1]
        r0 == imagePos[1][2]
        r1 == imagePos[3][2]
    IN  IF (c0 = c1) \/ (r0 = r1) THEN Raise("AssertionError")
        ELSE IF \E k \in 2..4 : regPrfArray[k].shape # p11.shape
        THEN Raise("ValueError: broadcast")
        ELSE Return(InterpolateImages(p11, p21, p12, p22,
                        FDiv(col - c1 * Den, (c0 - c1) * Den),
                        FDiv(row - r0 * Den, (r1 - r0) * Den)))

\* col and row are numerators over Den; imagePos holds integer pixel positions.
\* Arrays of different shapes do not combine (none of the shapes met here has
\* an axis of length 1, which numpy would broadcast).
interpolatePrf(regPrfArray, col, row, imagePos) ==
    IF Len(regPrfArray) # 4 THEN Raise("ValueError: unpack")
    ELSE
    LET p11 == regPrfArray[1]
        p21 == regPrfArray[2]
        p12 == regPrfArray[3]
        p22 == regPrfArray[4]
        c0 == imagePos[1][1]
        c1 == imagePos[2][1]
        r0 == imagePos[1][2]
        r1 == imagePos[3][2]
    IN  IF (c0 = c1) \/ (r0 = r1) THEN Raise("AssertionError")
        ELSE IF \E k \in 2..4 : regPrfArray[k].shape # p11.shape
        THEN Raise("ValueError: broadcast")
        ELSE Return(InterpolateImages(p11, p21, p12, p22,
                        FDiv(col - c0 * Den, (c1 - c0) * Den),
                        FDiv(row - r0 * Den, (r1 - r0) * Den)))

\* ------------------------------------------------------------ the calibration files
\* The part of the environment the code reads: the directory (or URL) behind
\* the base path.  A disk is [seed, badPos, badKind]: every file holds a
\* well-formed (gridSize*NPix)-square array whose values depend on the seed
\* and on the file's name, except the file of grid point badPos, which is
\* missing, unreadable, or holds an array of another shape.
BasePath == "prf_fitsfiles/"

Palette == <<1, 18, 3, 40, 5, 22, 7, 48, 9, 26, 11, 60, 13>>

DateCode(datestring) ==
    CASE datestring = "2018243163600" -> 0
      [] datestring = "2018243163601" -> 1
      [] datestring = "2019107181900" -> 2
      [] datestring = "2019107181901" -> 3
      [] datestring = "2019107181902" -> 4
      [] OTHER -> 5

\* Variant: the column in the row field and the row in the col field.
FileName_RowColExchanged(ccd, camera, col, row, path, datestring) ==
    [path |-> path, camDir |-> camera, ccdDir |-> ccd, date |-> datestring,
     cam |-> camera, ccd |-> ccd, row |-> col, col |-> row]

\* "cam%u_ccd%u/tess%13s-prf-%1u-%1u-row%04u-col%04u.fits" % (camera, ccd,
\* datestring, camera, ccd, row, col), joined to path: the fields in order.
FileName(ccd, camera, col, row, path, datestring) ==
    [path |-> path, camDir |-> camera, ccdDir |-> ccd, date |-> datestring,
     cam |-> camera, ccd |-> ccd, row |-> row, col |-> col]

NoPos == <<0, 0>>

Side == gridSize * NPix

FileShape(disk, name) ==
    IF <<name.col, name.row>> # disk.badPos THEN <<Side, Side>>
    ELSE IF disk.badKind = "nonsquare" THEN <<Side, Side - 1>>
    ELSE <<Side + 2, Side + 2>>

FileSeed(disk, name) ==
    disk.seed + name.col + 5 * name.row + 2 * name.cam + 3 * name.ccd
        + DateCode(name.date) + (IF name.path[2] = "/start_s0001/" THEN 0 ELSE 6)

ArrayOf(shape, h) ==
    [shape |-> shape,
     data |-> [i \in 0..(shape[1] - 1) |->
                [j \in 0..(shape[2] - 1) |->
                   Palette[((h + 2 * i + 3 * j + i * j) % Len(Palette)) + 1]]]]

\* The exception fits.open(filepath) raises for this file, "none" when it opens.
FitsError(disk, name) ==
    IF <<name.col, name.row>> # disk.badPos THEN "none"
    ELSE IF disk.badKind = "missing" THEN "FileNotFoundError"
    ELSE IF disk.badKind = "unreadable" THEN "OSError"
    ELSE "none"

\* fits.open(filepath)[0].data
FitsOpen(disk, name) ==
    IF FitsError(disk, name) # "none" THEN Raise(FitsError(disk, name))
    ELSE Return(ArrayOf(FileShape(disk, name), FileSeed(disk, name)))

readOnePrfFitsFile(disk, ccd, camera, col, row, path, datestring) ==
    FitsOpen(disk, FileName(ccd, camera, col, row, path, datestring))

\* The disks: no bad file, or one bad file among the grid points around the
\* requested locations near (120, 500).
BadFiles == {[pos |-> <<45, 513>>, kind |-> "missing"],
             [pos |-> <<557, 513>>, kind |-> "unreadable"],
             [pos |-> <<45, 513>>, kind |-> "nonsquare"],
             [pos |-> <<557, 513>>, kind |-> "notmultiple"]}

Disks ==
    {[seed |-> s, badPos |-> NoPos, badKind |-> "none"] : s \in 0..(NSeeds - 1)}
    \cup {[seed |-> s, badPos |-> b.pos, badKind |-> b.kind] :
            s \in 0..(NSeeds - 1), b \in BadFiles}

\* ------------------------------------------------------------ inputs
GridCols == {posCols[i] * Den : i \in DOMAIN posCols}

GridRows == {posRows[i] * Den : i \in DOMAIN posRows}

\* Requested locations (numerators over Den): the 25 grid points, locations
\* between them with and without a fraction, midpoints of two grid positions,
\* a location a quarter pixel after a grid column, and locations outside the
\* grid.
ColVals == GridCols \cup {120 * Den + 6, 301 * Den, 1000 * Den + Den - 3,
                          1580 * Den + Den \div 4, 2200 * Den, -3 * Den - 16}

RowVals == GridRows \cup {500 * Den, 257 * Den, 1280 * Den + Den \div 2,
                          1500 * Den + Den \div 2, 2100 * Den + 1}

\* Detector identities of the calls to the two main functions: <<ccd, camera, sector>>.
ServiceIds == {<<1, 2, 1>>, <<3, 1, 8>>, <<1, 2, 0>>, <<1, 5, 1>>, <<5, 1, 1>>,
               <<1, 0, 1>>}

\* ------------------------------------------------------------ state
VARIABLES
    disk,        \* the calibration files (never written)
    pc,          \* "idle", "load", "interpolate", "done"
    fn,          \* the function called
    args,        \* its arguments
    datestring,  \* locals of the main functions
    path,
    colOffset,
    rowOffset,
    imagePos,
    it,          \* position of the for loop over imagePos (next index)
    prfImages,
    loads,       \* the file names handed to fits.open during this call, in order
    ret          \* what the call returned or raised

vars == <<disk, pc, fn, args, datestring, path, colOffset, rowOffset, imagePos,
          it, prfImages, loads, ret>>

NoLocals ==
    /\ datestring' = ""
    /\ path' = <<BasePath, "">>
    /\ colOffset' = 0
    /\ rowOffset' = 0
    /\ imagePos' = <<>>
    /\ it' = 1

\* No call is running: the caller may call a function.
Idle == pc = "idle"

Init ==
    /\ disk \in Disks
    /\ pc = "idle"
    /\ fn = "none"
    /\ args = <<>>
    /\ datestring = ""
    /\ path = <<BasePath, "">>
    /\ colOffset = 0
    /\ rowOffset = 0
    /\ imagePos = <<>>
    /\ it = 1
    /\ prfImages = <<>>
    /\ loads = <<>>
    /\ ret = NoResult

\* ------------------------------------------------------------ the main functions
\* A call of pathLookup by the user.
CallPathLookup(ccd, camera, sector) ==
    /\ Idle
    /\ fn' = "pathLookup"
    /\ args' = [ccd |-> ccd, camera |-> camera, sector |-> sector]
    /\ ret' = pathLookup(ccd, camera, sector)
    /\ pc' = "done"
    /\ NoLocals
    /\ prfImages' = <<>>
    /\ loads' = <<>>
    /\ UNCHANGED disk

\* Variant: the file of the first grid point is requested before pathLookup
\* has checked the detector identity.
Begin_LoadFirst(f, col, row, ccd, camera, sector) ==
    /\ Idle
    /\ fn' = f
    /\ args' = [col |-> col, row |-> row, ccd |-> ccd, camera |-> camera,
                sector |-> sector]
    /\ prfImages' = <<>>
    /\ loads' = <<FileName(ccd, camera, determineFourClosestPrfLoc(col, row)[1][1],
                           determineFourClosestPrfLoc(col, row)[1][2],
                           <<BasePath, "">>, "")>>
    /\ ret' = pathLookup(ccd, camera, sector)
    /\ pc' = "done"
    /\ NoLocals
    /\ UNCHANGED disk

\* Variant: the offsets are not computed by the call; it uses the values the
\* variables hold when it starts.
Begin_StaleOffsets(f, col, row, ccd, camera, sector) ==
    /\ Idle
    /\ fn' = f
    /\ args' = [col |-> col, row |-> row, ccd |-> ccd, camera |-> camera,
                sector |-> sector]
    /\ prfImages' = <<>>
    /\ loads' = <<>>
    /\ LET lk == pathLookup(ccd, camera, sector)
       IN  IF lk.kind = "error"
           THEN /\ ret' = lk
                /\ pc' = "done"
                /\ NoLocals
           ELSE /\ datestring' = lk.val.datestring
                /\ path' = <<BasePath, lk.val.add_path>>
                /\ UNCHANGED <<colOffset, rowOffset>>
                /\ imagePos' = determineFourClosestPrfLoc(col, row)
                /\ it' = 1
                /\ ret' = NoResult
                /\ pc' = "load"
    /\ UNCHANGED disk

\* The common head of the two main functions, up to the first file read:
\* pathLookup, path + addPath, getOffsetsFromPixelFractions,
\* determineFourClosestPrfLoc.
Begin(f, col, row, ccd, camera, sector) ==
    /\ Idle
    /\ fn' = f
    /\ args' = [col |-> col, row |-> row, ccd |-> ccd, camera |-> camera,
                sector |-> sector]
    /\ prfImages' = <<>>
    /\ loads' = <<>>
    /\ LET lk == pathLookup(ccd, camera, sector)
       IN  IF lk.kind = "error"
           THEN /\ ret' = lk
                /\ pc' = "done"
                /\ NoLocals
           ELSE /\ datestring' = lk.val.datestring
                /\ path' = <<BasePath, lk.val.add_path>>
                /\ colOffset' = getOffsetsFromPixelFractions(col, row)[1]
                /\ rowOffset' = getOffsetsFromPixelFractions(col, row)[2]
                /\ imagePos' = determineFourClosestPrfLoc(col, row)
                /\ it' = 1
                /\ ret' = NoResult
                /\ pc' = "load"
    /\ UNCHANGED disk

getNearestPrfFits(col, row, ccd, camera, sector) ==
    Begin("getNearestPrfFits", col, row, ccd, camera, sector)

getPrfAtColRowFits(col, row, ccd, camera, sector) ==
    Begin("getPrfAtColRowFits", col, row, ccd, camera, sector)

\* Variant: the file of the second grid point of the list is read.
NearestRead_Second ==
    /\ pc = "load"
    /\ fn = "getNearestPrfFits"
    /\ LET bestPos == imagePos[2]
           rd == readOnePrfFitsFile(disk, args.ccd, args.camera, bestPos[1],
                                    bestPos[2], path, datestring)
       IN  /\ loads' = Append(loads, FileName(args.ccd, args.camera, bestPos[1],
                                              bestPos[2], path, datestring))
           /\ ret' = IF rd.kind = "error" THEN rd
                     ELSE getRegSampledPrfFitsByOffset(rd.val, colOffset, rowOffset)
    /\ pc' = "done"
    /\ UNCHANGED <<disk, fn, args, datestring, path, colOffset, rowOffset,
                   imagePos, it, prfImages>>

\* getNearestPrfFits: read the file of imagePos[0], extract, return.
NearestRead ==
    /\ pc = "load"
    /\ fn = "getNearestPrfFits"
    /\ LET bestPos == imagePos[1]
           rd == readOnePrfFitsFile(disk, args.ccd, args.camera, bestPos[1],
                                    bestPos[2], path, datestring)
       IN  /\ loads' = Append(loads, FileName(args.ccd, args.camera, bestPos[1],
                                              bestPos[2], path, datestring))
           /\ ret' = IF rd.kind = "error" THEN rd
                     ELSE getRegSampledPrfFitsByOffset(rd.val, colOffset, rowOffset)
    /\ pc' = "done"
    /\ UNCHANGED <<disk, fn, args, datestring, path, colOffset, rowOffset,
                   imagePos, it, prfImages>>

\* An image of zeros.
ZeroImage == [shape |-> <<NPix, NPix>>,
              data |-> [i \in 0..(NPix - 1) |-> [j \in 0..(NPix - 1) |-> 0]]]

\* Variant: a failed read is replaced by an image of zeros and the loop goes on.
LoopBody_Default ==
    /\ pc = "load"
    /\ fn = "getPrfAtColRowFits"
    /\ LET pos == imagePos[it]
           rd == readOnePrfFitsFile(disk, args.ccd, args.camera, pos[1], pos[2],
                                    path, datestring)
           img == IF rd.kind = "error" THEN Return(ZeroImage)
                  ELSE getRegSampledPrfFitsByOffset(rd.val, colOffset, rowOffset)
       IN  /\ loads' = Append(loads, FileName(args.ccd, args.camera, pos[1],
                                              pos[2], path, datestring))
           /\ IF img.kind = "error"
              THEN /\ ret' = img
                   /\ pc' = "done"
                   /\ UNCHANGED <<prfImages, it>>
              ELSE /\ prfImages' = Append(prfImages, img.val)
                   /\ it' = it + 1
                   /\ pc' = IF it = Len(imagePos) THEN "interpolate" ELSE "load"
                   /\ UNCHANGED ret
    /\ UNCHANGED <<disk, fn, args, datestring, path, colOffset, rowOffset, imagePos>>

\* Variant: each image is put at the front of the list.
LoopBody_Prepend ==
    /\ pc = "load"
    /\ fn = "getPrfAtColRowFits"
    /\ LET pos == imagePos[it]
           rd == readOnePrfFitsFile(disk, args.ccd, args.camera, pos[1], pos[2],
                                    path, datestring)
           img == getRegSampledPrfFitsByOffset(rd.val, colOffset, rowOffset)
       IN  /\ loads' = Append(loads, FileName(args.ccd, args.camera, pos[1],
                                              pos[2], path, datestring))
           /\ IF rd.kind = "error"
              THEN /\ ret' = rd
                   /\ pc' = "done"
                   /\ UNCHANGED <<prfImages, it>>
              ELSE IF img.kind = "error"
              THEN /\ ret' = img
                   /\ pc' = "done"
                   /\ UNCHANGED <<prfImages, it>>
              ELSE /\ prfImages' = <<img.val>> \o prfImages
                   /\ it' = it + 1
                   /\ pc' = IF it = Len(imagePos) THEN "interpolate" ELSE "load"
                   /\ UNCHANGED ret
    /\ UNCHANGED <<disk, fn, args, datestring, path, colOffset, rowOffset, imagePos>>

\* Variant: a file that fails to open is requested a second time.
LoopBody_Retry ==
    /\ pc = "load"
    /\ fn = "getPrfAtColRowFits"
    /\ LET pos == imagePos[it]
           name == FileName(args.ccd, args.camera, pos[1], pos[2], path, datestring)
           rd == readOnePrfFitsFile(disk, args.ccd, args.camera, pos[1], pos[2],
                                    path, datestring)
           img == getRegSampledPrfFitsByOffset(rd.val, colOffset, rowOffset)
       IN  IF rd.kind = "error"
           THEN /\ loads' = loads \o <<name, name>>
                /\ ret' = rd
                /\ pc' = "done"
                /\ UNCHANGED <<prfImages, it>>
           ELSE /\ loads' = Append(loads, name)
                /\ IF img.kind = "error"
                   THEN /\ ret' = img
                        /\ pc' = "done"
                        /\ UNCHANGED <<prfImages, it>>
                   ELSE /\ prfImages' = Append(prfImages, img.val)
                        /\ it' = it + 1
                        /\ pc' = IF it = Len(imagePos) THEN "interpolate" ELSE "load"
                        /\ UNCHANGED ret
    /\ UNCHANGED <<disk, fn, args, datestring, path, colOffset, rowOffset, imagePos>>

\* getPrfAtColRowFits: one pass of "for pos in imagePos": read, extract, append.
LoopBody ==
    /\ pc = "load"
    /\ fn = "getPrfAtColRowFits"
    /\ LET pos == imagePos[it]
           rd == readOnePrfFitsFile(disk, args.ccd, args.camera, pos[1], pos[2],
                                    path, datestring)
           img == getRegSampledPrfFitsByOffset(rd.val, colOffset, rowOffset)
       IN  /\ loads' = Append(loads, FileName(args.ccd, args.camera, pos[1],
                                              pos[2], path, datestring))
           /\ IF rd.kind = "error"
              THEN /\ ret' = rd
                   /\ pc' = "done"
                   /\ UNCHANGED <<prfImages, it>>
              ELSE IF img.kind = "error"
              THEN /\ ret' = img
                   /\ pc' = "done"
                   /\ UNCHANGED <<prfImages, it>>
              ELSE /\ prfImages' = Append(prfImages, img.val)
                   /\ it' = it + 1
                   /\ pc' = IF it = Len(imagePos) THEN "interpolate" ELSE "load"
                   /\ UNCHANGED ret
    /\ UNCHANGED <<disk, fn, args, datestring, path, colOffset, rowOffset, imagePos>>

\* Variant: col and row are handed to interpolatePrf in the other order.
Interpolate_Exchanged ==
    /\ pc = "interpolate"
    /\ ret' = interpolatePrf(prfImages, args.row, args.col, imagePos)
    /\ pc' = "done"
    /\ UNCHANGED <<disk, fn, args, datestring, path, colOffset, rowOffset,
                   imagePos, it, prfImages, loads>>

\* getPrfAtColRowFits: interpolatePrf(prfImages, col, row, imagePos) and return.
Interpolate ==
    /\ pc = "interpolate"
    /\ ret' = interpolatePrf(prfImages, args.col, args.row, imagePos)
    /\ pc' = "done"
    /\ UNCHANGED <<disk, fn, args, datestring, path, colOffset, rowOffset,
                   imagePos, it, prfImages, loads>>

\* The caller takes the result (or the exception); the locals of the call are gone.
Finish ==
    /\ pc = "done"
    /\ pc' = "idle"
    /\ fn' = "none"
    /\ args' = <<>>
    /\ NoLocals
    /\ prfImages' = <<>>
    /\ loads' = <<>>
    /\ ret' = NoResult
    /\ UNCHANGED disk

\* The caller starts a call when none is running.
Next ==
    \/ /\ Idle
       /\ \E ccd \in 0..MaxId, camera \in 0..MaxId, sector \in (-1)..MaxSector :
             CallPathLookup(ccd, camera, sector)
    \/ /\ Idle
       /\ \E col \in ColVals, row \in RowVals, id \in ServiceIds :
             getNearestPrfFits(col, row, id[1], id[2], id[3])
    \/ /\ Idle
       /\ \E col \in ColVals, row \in RowVals, id \in ServiceIds :
             getPrfAtColRowFits(col, row, id[1], id[2], id[3])
    \/ NearestRead
    \/ LoopBody
    \/ Interpolate
    \/ Finish

Spec == Init /\ [][Next]_vars

\* ------------------------------------------------------------ calls of the helper functions
\* The notebook's helper functions are called on their own by the specifications
\* below; each call is one step, since the helpers do no input or output.
PureCall(f, a, r) ==
    /\ Idle
    /\ fn' = f
    /\ args' = a
    /\ ret' = r
    /\ pc' = "done"
    /\ NoLocals
    /\ prfImages' = <<>>
    /\ loads' = <<>>
    /\ UNCHANGED disk

GoodDisk == [seed |-> 0, badPos |-> NoPos, badKind |-> "none"]

InitPure == Init /\ disk = GoodDisk

\* ---- getOffsetsFromPixelFractions
\* Fractions on both sides of every rounding boundary k + 1/2 of gridSize * frac
\* that the multiples of 1/Den get near, the tie at 1/2, and the ends.
FracVals == {0, 1, 3, 4, Den \div 2 - 4, Den \div 2, Den \div 2 + 3,
             Den \div 2 + 4, Den - 4, Den - 3, Den - 1}

OffsetVals == {b * Den + f : b \in {-2, -1, 0, 1, 120}, f \in FracVals}

CallOffsets(col, row) ==
    PureCall("getOffsetsFromPixelFractions", [col |-> col, row |-> row],
             Return(getOffsetsFromPixelFractions(col, row)))

NextOffsets ==
    \/ /\ Idle
       /\ \E col \in OffsetVals, row \in OffsetVals : CallOffsets(col, row)
    \/ Finish

SpecOffsets == InitPure /\ [][NextOffsets]_vars

\* ---- getRegSampledPrfFitsByOffset
\* On every disk the array of its bad file if that holds one (not square, or
\* square with a side that is no multiple of gridSize), else of a good file.
SampleArrays ==
    {LET p == IF d.badPos = NoPos THEN <<45, 513>> ELSE d.badPos
     IN  FitsOpen(d, FileName(1, 2, p[1], p[2], <<BasePath, "/start_s0001/">>,
                              "2018243163600")).val :
        d \in {x \in Disks : x.badKind \notin {"missing", "unreadable"}}}

ExtractOffsets == (-1)..(gridSize + 1)

CallExtract(prfArray, co, ro) ==
    PureCall("getRegSampledPrfFitsByOffset",
             [prfArray |-> prfArray, colOffset |-> co, rowOffset |-> ro],
             getRegSampledPrfFitsByOffset(prfArray, co, ro))

NextExtract ==
    \/ /\ Idle
       /\ \E a \in SampleArrays, co \in ExtractOffsets, ro \in ExtractOffsets :
             CallExtract(a, co, ro)
    \/ Finish

SpecExtract == InitPure /\ [][NextExtract]_vars

\* ---- interpolatePrf
\* Images of NPix x NPix pixels.
ImageSeeds == {0, 1, 2, 4, 6}

SampleImages == {ArrayOf(<<NPix, NPix>>, h) : h \in ImageSeeds}

\* Lists of four grid points as determineFourClosestPrfLoc returns them.
SampleGrids ==
    {determineFourClosestPrfLoc(120 * Den, 500 * Den),
     determineFourClosestPrfLoc(1500 * Den, 1300 * Den)}

\* The four corners of the list, a point inside and a point outside.
SamplePoints(g) ==
    {<<g[k][1] * Den, g[k][2] * Den>> : k \in 1..4}
    \cup {<<g[1][1] * Den + 75 * Den + 6, g[1][2] * Den - 13 * Den>>,
          <<g[2][1] * Den + 40 * Den, g[3][2] * Den>>}

CallInterpolate(regPrfArray, col, row, g) ==
    PureCall("interpolatePrf",
             [regPrfArray |-> regPrfArray, col |-> col, row |-> row, imagePos |-> g],
             interpolatePrf(regPrfArray, col, row, g))

NextInterp ==
    \/ /\ Idle
       /\ \E p1 \in SampleImages, p2 \in SampleImages, p3 \in SampleImages,
             p4 \in SampleImages, g \in SampleGrids :
             \E pt \in SamplePoints(g) :
                CallInterpolate(<<p1, p2, p3, p4>>, pt[1], pt[2], g)
    \/ Finish

SpecInterp == InitPure /\ [][NextInterp]_vars

\* ---- determineFourClosestPrfLoc
\* The locations of the main functions' calls, every grid position and every
\* location half way between two neighbouring positions, each with the
\* locations 1/Den before and after it.
NearPositions(pos) ==
    {pos[i] * Den + e : i \in DOMAIN pos, e \in {-1, 0, 1}}
    \cup {((pos[i] + pos[i + 1]) * Den) \div 2 + e :
             i \in 1..(Len(pos) - 1), e \in {-1, 0, 1}}

LocateCols == ColVals \cup NearPositions(posCols)

LocateRows == RowVals \cup NearPositions(posRows)

CallLocate(col, row) ==
    PureCall("determineFourClosestPrfLoc", [col |-> col, row |-> row],
             Return(determineFourClosestPrfLoc(col, row)))

NextLocate ==
    \/ /\ Idle
       /\ \E col \in LocateCols, row \in LocateRows : CallLocate(col, row)
    \/ Finish

SpecLocate == InitPure /\ [][NextLocate]_vars

\* ---- interpolatePrf on any list of four positions
\* Lists whose first two columns, or first and third rows, or both, are equal.
DegenerateGrids ==
    {<< <<45, 513>>, <<45, 513>>, <<45, 1>>, <<45, 1>> >>,
     << <<45, 513>>, <<557, 513>>, <<45, 513>>, <<557, 513>> >>,
     << <<45, 513>>, <<45, 513>>, <<45, 513>>, <<45, 513>> >>}

AnyGrids == SampleGrids \cup DegenerateGrids

\* Two images of one shape and one of another shape.
AnyImages ==
    {ArrayOf(<<NPix, NPix>>, 0), ArrayOf(<<NPix, NPix>>, 1),
     ArrayOf(<<NPix + 1, NPix + 1>>, 0)}

NextInterpAny ==
    \/ /\ Idle
       /\ \E p1 \in AnyImages, p2 \in AnyImages, p3 \in AnyImages,
             p4 \in AnyImages, g \in AnyGrids :
             \E pt \in SamplePoints(g) :
                CallInterpolate(<<p1, p2, p3, p4>>, pt[1], pt[2], g)
    \/ Finish

SpecInterpAny == InitPure /\ [][NextInterpAny]_vars


\* ------------------------------------------------------------ properties
Done(f) == pc = "done" /\ fn = f

MainFunctions == {"getNearestPrfFits", "getPrfAtColRowFits"}

\* The two errors pathLookup raises (InvalidDetectorIdentity).
IdentityErrors == {Raise("ValueError: Sector must be greater than 0."),
                   Raise("ValueError: Camera or CCD is larger than 4.")}

EpochTokens == {"2018243163600", "2018243163601", "2019107181900",
                "2019107181901", "2019107181902"}

PathSegments == {"/start_s0001/", "/start_s0004/"}

\* The file name the main functions use for grid point imagePos[k].
NameOfPos(k) ==
    FileName(args.ccd, args.camera, imagePos[k][1], imagePos[k][2], path, datestring)

\* What getNearestPrfFits returns or raises for these arguments on disk d.
NearestResult(d, col, row, ccd, camera, sector) ==
    LET lk == pathLookup(ccd, camera, sector)
        offs == getOffsetsFromPixelFractions(col, row)
        bestPos == determineFourClosestPrfLoc(col, row)[1]
        rd == readOnePrfFitsFile(d, ccd, camera, bestPos[1], bestPos[2],
                                 <<BasePath, lk.val.add_path>>, lk.val.datestring)
    IN  IF lk.kind = "error" THEN lk
        ELSE IF rd.kind = "error" THEN rd
        ELSE getRegSampledPrfFitsByOffset(rd.val, offs[1], offs[2])

\* What getPrfAtColRowFits returns or raises for these arguments on disk d:
\* the error of pathLookup, else the error of the first grid point whose file
\* does not open or whose array is not extracted from, else interpolatePrf of
\* the four images.
InterpolatedResult(d, col, row, ccd, camera, sector) ==
    LET lk == pathLookup(ccd, camera, sector)
        offs == getOffsetsFromPixelFractions(col, row)
        imgPos == determineFourClosestPrfLoc(col, row)
        rd(k) == readOnePrfFitsFile(d, ccd, camera, imgPos[k][1], imgPos[k][2],
                                    <<BasePath, lk.val.add_path>>, lk.val.datestring)
        img(k) == getRegSampledPrfFitsByOffset(rd(k).val, offs[1], offs[2])
        Fails(k) == rd(k).kind = "error" \/ img(k).kind = "error"
    IN  IF lk.kind = "error" THEN lk
        ELSE IF \E k \in 1..4 : Fails(k)
        THEN LET k == CHOOSE x \in 1..4 : Fails(x) /\ \A y \in 1..(x - 1) : ~Fails(y)
             IN  IF rd(k).kind = "error" THEN rd(k) ELSE img(k)
        ELSE interpolatePrf([k \in 1..4 |-> img(k).val], col, row, imgPos)

\* The steps of getNearestPrfFits end in NearestResult.
NearestStepsAgree ==
    Done("getNearestPrfFits") =>
        ret = NearestResult(disk, args.col, args.row, args.ccd, args.camera,
                            args.sector)

\* Every pixel value of the files is a number of the pixel format.
PaletteRepresentable == \A k \in DOMAIN Palette : Fl(Palette[k], 1) = Palette[k]

\* C1: getOffsetsFromPixelFractions returns a column offset and a row offset
\* that are both integers in [0, gridSize - 1], for every col and row.
C1_OffsetsInRange ==
    Done("getOffsetsFromPixelFractions") =>
        /\ ret.val[1] \in 0..(gridSize - 1)
        /\ ret.val[2] \in 0..(gridSize - 1)

\* C2: pathLookup raises its identity error exactly when sector < 1 or
\* camera > 4 or ccd > 4, and returns a (datestring, add_path) pair otherwise;
\* sector 0 is rejected.
C2_LookupRejects ==
    Done("pathLookup") =>
        IF args.sector < 1 \/ args.camera > 4 \/ args.ccd > 4
        THEN ret \in IdentityErrors
        ELSE /\ ret.kind = "ok"
             /\ ret.val.datestring \in EpochTokens
             /\ ret.val.add_path \in PathSegments

C2_Witness ==
    /\ Done("pathLookup")
    /\ args.sector = 0
    /\ args.camera \in 1..4
    /\ args.ccd \in 1..4
    /\ ret \in IdentityErrors

\* C3: a call of pathLookup, getNearestPrfFits or getPrfAtColRowFits with a
\* camera or ccd outside 1..4 or a sector below 1 fails: it ends in an error
\* and returns neither a naming pair nor an image.
C3_OutOfRangeFails ==
    (/\ pc = "done"
     /\ fn \in MainFunctions \cup {"pathLookup"}
     /\ (args.camera \notin 1..4 \/ args.ccd \notin 1..4 \/ args.sector < 1))
    => ret.kind = "error"

\* C4: a call of a main function that ends with the identity error of
\* pathLookup has requested no calibration file.
C4_NoLoadBeforeIdentityError ==
    (fn \in MainFunctions /\ ret \in IdentityErrors) => loads = <<>>

C4_Witness ==
    /\ Done("getPrfAtColRowFits")
    /\ args.sector = 0
    /\ ret \in IdentityErrors
    /\ loads = <<>>

\* C5: in getPrfAtColRowFits a failed file read ends the call in that error:
\* after it no further step of the loop runs, interpolatePrf is not reached,
\* nothing is returned, and no image stands in for the file; interpolatePrf
\* is only reached with four images from four successful reads.
FailedLoads == {k \in DOMAIN loads : FitsError(disk, loads[k]) # "none"}

C6_ImagesPairedWithGridPoints ==
    (fn = "getPrfAtColRowFits" /\ pc = "interpolate") =>
        /\ imagePos = determineFourClosestPrfLoc(args.col, args.row)
        /\ Len(prfImages) = 4
        /\ \A k \in 1..4 :
              /\ loads[k] = NameOfPos(k)
              /\ Return(prfImages[k]) =
                    getRegSampledPrfFitsByOffset(FitsOpen(disk, NameOfPos(k)).val,
                                                 colOffset, rowOffset)

C6_Witness ==
    /\ fn = "getPrfAtColRowFits"
    /\ pc = "interpolate"
    /\ \A k \in 1..4 : \A m \in 1..4 : k # m => prfImages[k] # prfImages[m]

\* C7: at a requested location that is a grid point (no fraction),
\* getPrfAtColRowFits returns the image getNearestPrfFits returns.
C7_GridPointAgreement ==
    (/\ Done("getPrfAtColRowFits")
     /\ args.col \in GridCols
     /\ args.row \in GridRows
     /\ ret.kind = "ok")
    => ret = NearestResult(disk, args.col, args.row, args.ccd, args.camera,
                           args.sector)

\* An interior grid point, where two neighbours tie for second nearest.
C7_Witness ==
    /\ Done("getPrfAtColRowFits")
    /\ args.col = 557 * Den
    /\ args.row = 513 * Den
    /\ ret.kind = "ok"
    /\ prfImages[1] # prfImages[2]
    /\ prfImages[1] # prfImages[3]
    /\ ret.val = prfImages[1]

\* interpolatePrf was asked for the k-th of its four grid points.
AtCorner(k) ==
    /\ args.col = args.imagePos[k][1] * Den
    /\ args.row = args.imagePos[k][2] * Den

\* The pixel differences p - q are formed without rounding.
ExactDiff(p, q) ==
    \A i \in DOMAIN p.data : \A j \in DOMAIN p.data[i] :
        FSub(p.data[i][j], q.data[i][j]) = p.data[i][j] - q.data[i][j]

\* C8 as stated: interpolatePrf evaluated at its k-th grid point returns
\* exactly the k-th image, for each of the four.
C8_ExactAtCorners ==
    Done("interpolatePrf") =>
        \A k \in 1..4 : AtCorner(k) => ret = Return(args.regPrfArray[k])

\* C8, amended: at its first grid point interpolatePrf returns exactly the
\* first image; at the second, third and fourth it returns exactly that
\* point's image when the pixel differences it forms on the way are free of
\* rounding (otherwise the result is a + (b - a) as rounded).
C8_ExactAtFirstCorner ==
    Done("interpolatePrf") =>
        LET p == args.regPrfArray
        IN  /\ AtCorner(1) => ret = Return(p[1])
            /\ (AtCorner(2) /\ ExactDiff(p[2], p[1])) => ret = Return(p[2])
            /\ (AtCorner(3) /\ ExactDiff(p[3], p[1])) => ret = Return(p[3])
            /\ (AtCorner(4) /\ ExactDiff(p[2], p[1]) /\ ExactDiff(p[4], p[3])
                    /\ ExactDiff(p[4], p[2])) => ret = Return(p[4])

C8_Witness ==
    /\ Done("interpolatePrf")
    /\ AtCorner(4)
    /\ ExactDiff(args.regPrfArray[2], args.regPrfArray[1])
    /\ ExactDiff(args.regPrfArray[4], args.regPrfArray[3])
    /\ ExactDiff(args.regPrfArray[4], args.regPrfArray[2])
    /\ Cardinality({args.regPrfArray[k] : k \in 1..4}) = 4
    /\ ret = Return(args.regPrfArray[4])

C10_OffsetsPeriodic ==
    Done("getOffsetsFromPixelFractions") =>
        /\ ret.val = getOffsetsFromPixelFractions(args.col + Den, args.row + Den)
        /\ ret.val = getOffsetsFromPixelFractions(args.col - Den, args.row - Den)

\* A call just below zero, whose shifted location is just above.
C10_Witness ==
    /\ Done("getOffsetsFromPixelFractions")
    /\ args.col = -4
    /\ args.row = -Den + 1
    /\ ret.val = getOffsetsFromPixelFractions(Den - 4, 1)

\* The file name the main functions build for the k-th grid point of
\* determineFourClosestPrfLoc, from the arguments of the call alone.
NameOfArgs(k) ==
    LET lk == pathLookup(args.ccd, args.camera, args.sector).val
        g == determineFourClosestPrfLoc(args.col, args.row)[k]
    IN  FileName(args.ccd, args.camera, g[1], g[2], <<BasePath, lk.add_path>>,
                 lk.datestring)

\* The image extracted from the file of the k-th grid point at the offsets of
\* the requested location (a result: the image, or the error of the extraction).
ExtractOfArgs(k) ==
    LET offs == getOffsetsFromPixelFractions(args.col, args.row)
    IN  getRegSampledPrfFitsByOffset(FitsOpen(disk, NameOfArgs(k)).val,
                                     offs[1], offs[2])

\* C11: a call of getNearestPrfFits reads at most one file and never reaches
\* the interpolation; when it returns an image it has read exactly one file,
\* that of the first grid point of determineFourClosestPrfLoc, and the image
\* is the one extracted from that file at the offsets of the requested
\* location, as extracted (no image list, no interpolatePrf).
C11_NearestReadsFirstOnly ==
    fn = "getNearestPrfFits" =>
        /\ Len(loads) <= 1
        /\ pc # "interpolate"
        /\ prfImages = <<>>
        /\ (pc = "done" /\ ret.kind = "ok") =>
              /\ Len(loads) = 1
              /\ loads[1] = NameOfArgs(1)
              /\ FitsError(disk, loads[1]) = "none"
              /\ ret = ExtractOfArgs(1)

\* A location with a fraction, between grid points whose files differ.
C11_Witness ==
    /\ Done("getNearestPrfFits")
    /\ disk.badKind = "none"
    /\ args.col = 120 * Den + 6
    /\ args.row = 500 * Den
    /\ ret.kind = "ok"
    /\ loads = <<NameOfArgs(1)>>
    /\ ret = ExtractOfArgs(1)
    /\ ret # ExtractOfArgs(2)
    /\ ret # ExtractOfArgs(3)

\* C12: when getPrfAtColRowFits returns an image it has read four files, those
\* of the four grid points of determineFourClosestPrfLoc in their order, and
\* the image is interpolatePrf of the four images extracted from them at the
\* one offset pair of the requested location, of the requested (col, row) and
\* of the four grid points.
C12_InterpolatesFourExtracts ==
    (Done("getPrfAtColRowFits") /\ ret.kind = "ok") =>
        /\ Len(loads) = 4
        /\ \A k \in 1..4 :
              /\ loads[k] = NameOfArgs(k)
              /\ FitsError(disk, loads[k]) = "none"
              /\ ExtractOfArgs(k).kind = "ok"
        /\ ret = interpolatePrf([k \in 1..4 |-> ExtractOfArgs(k).val],
                                args.col, args.row,
                                determineFourClosestPrfLoc(args.col, args.row))

\* A location inside a grid cell, off its diagonals, with four different
\* images: the result is none of the four.
C12_Witness ==
    /\ Done("getPrfAtColRowFits")
    /\ args.col = 120 * Den + 6
    /\ args.row = 257 * Den
    /\ ret.kind = "ok"
    /\ Len(loads) = 4
    /\ Cardinality({ExtractOfArgs(k) : k \in 1..4}) = 4
    /\ \A k \in 1..4 : ret # ExtractOfArgs(k)

\* The 25 grid points of the mission's PRF files.
Catalog == {<<posCols[i], posRows[j]>> : i \in DOMAIN posCols, j \in DOMAIN posRows}

\* The square of d/Den as the pair <<q, r>> of value q + r/Den^2, 0 <= r < Den^2
\* (exact; the parts stay small).
Square(d) ==
    LET h == d \div Den
        l == d % Den
        m == 2 * h * l * Den + l * l
    IN  <<h * h + m \div (Den * Den), m % (Den * Den)>>

\* The squared Euclidean distance of grid point g to the location (col, row).
Dist2(g, col, row) ==
    LET a == Square(Abs(g[1] * Den - col))
        b == Square(Abs(g[2] * Den - row))
    IN  <<a[1] + b[1] + (a[2] + b[2]) \div (Den * Den), (a[2] + b[2]) % (Den * Den)>>

Smaller(x, y) == x[1] < y[1] \/ (x[1] = y[1] /\ x[2] < y[2])

\* The grid point of the file getNearestPrfFits has read.
UsedPoint == <<loads[1].col, loads[1].row>>

\* C13: the grid point whose file getNearestPrfFits reads is one of the 25
\* grid points, and no grid point has a strictly smaller Euclidean distance
\* to the requested (col, row).
C13_NearestIsEuclideanNearest ==
    (fn = "getNearestPrfFits" /\ Len(loads) = 1) =>
        /\ UsedPoint \in Catalog
        /\ \A g \in Catalog :
              ~Smaller(Dist2(g, args.col, args.row),
                       Dist2(UsedPoint, args.col, args.row))

\* A location half way between two columns and off the grid rows: the point
\* used is one of two grid points at the same, smallest, distance.
C13_Witness ==
    /\ Done("getNearestPrfFits")
    /\ Len(loads) = 1
    /\ ret.kind = "ok"
    /\ args.col = 301 * Den
    /\ args.row = 1500 * Den + Den \div 2
    /\ UsedPoint = <<45, 1536>>
    /\ Dist2(<<557, 1536>>, args.col, args.row) = Dist2(UsedPoint, args.col, args.row)
    /\ Smaller(Dist2(UsedPoint, args.col, args.row),
               Dist2(<<45, 1025>>, args.col, args.row))

\* The two positions of pos with the smallest absolute difference to n/Den:
\* the smallest first, of two at the same difference the one of lower index.
TwoNearest(pos, n) ==
    LET dif(i) == Abs(pos[i] * Den - n)
        Ahead(i, j) == dif(i) < dif(j) \/ (dif(i) = dif(j) /\ i < j)
        first == CHOOSE i \in DOMAIN pos :
                    \A j \in DOMAIN pos \ {i} : Ahead(i, j)
        second == CHOOSE i \in DOMAIN pos \ {first} :
                    \A j \in DOMAIN pos \ {first, i} : Ahead(i, j)
    IN  <<pos[first], pos[second]>>

\* C14: the rows of the list of determineFourClosestPrfLoc are the two of
\* 1, 513, 1025, 1536, 2048 with the smallest absolute difference to the
\* requested row, the smaller difference first and, at equal differences, the
\* position of lower index first; its columns are the same of 45, 557, 1069,
\* 1580, 2092 and the requested column.
C14_TwoNearestStable ==
    Done("determineFourClosestPrfLoc") =>
        LET rows == TwoNearest(<<1, 513, 1025, 1536, 2048>>, args.row)
            cols == TwoNearest(<<45, 557, 1069, 1580, 2092>>, args.col)
        IN  /\ <<ret.val[1][2], ret.val[3][2]>> = rows
            /\ <<ret.val[1][1], ret.val[2][1]>> = cols
            /\ {ret.val[k][2] : k \in 1..4} = {rows[1], rows[2]}
            /\ {ret.val[k][1] : k \in 1..4} = {cols[1], cols[2]}

\* Both coordinates tie: the row half way between 1 and 513, and a grid
\* column whose two neighbours are equally far.
C14_Witness ==
    /\ Done("determineFourClosestPrfLoc")
    /\ args.row = 257 * Den
    /\ args.col = 557 * Den
    /\ <<ret.val[1][2], ret.val[3][2]>> = <<1, 513>>
    /\ <<ret.val[1][1], ret.val[2][1]>> = <<557, 45>>

\* C15: determineFourClosestPrfLoc returns four (col, row) pairs in the order
\* (col0, row0), (col1, row0), (col0, row1), (col1, row1), col0 and row0 the
\* nearest positions: entries 1 and 2 share a row, entries 3 and 4 share a
\* row, entries 1 and 3 share a column, entries 2 and 4 share a column.
C15_ListOrder ==
    Done("determineFourClosestPrfLoc") =>
        LET g == ret.val
            r == TwoNearest(posRows, args.row)
            c == TwoNearest(posCols, args.col)
        IN  /\ Len(g) = 4
            /\ \A k \in 1..4 : Len(g[k]) = 2
            /\ g[1][2] = g[2][2]
            /\ g[3][2] = g[4][2]
            /\ g[1][1] = g[3][1]
            /\ g[2][1] = g[4][1]
            /\ g = << <<c[1], r[1]>>, <<c[2], r[1]>>, <<c[1], r[2]>>, <<c[2], r[2]>> >>

\* The nearest column is the larger one and the nearest row the larger one.
C15_Witness ==
    /\ Done("determineFourClosestPrfLoc")
    /\ args.col = 1000 * Den + Den - 3
    /\ args.row = 500 * Den
    /\ ret.val = << <<1069, 513>>, <<557, 513>>, <<1069, 1>>, <<557, 1>> >>

\* C16: in getPrfAtColRowFits the list of grid points has c0 # c1 and
\* r0 # r1 for every requested location, and the call of interpolatePrf
\* never fails its assertion on them.
C16_GridNeverDegenerate ==
    fn = "getPrfAtColRowFits" =>
        /\ imagePos # <<>> =>
              /\ imagePos[1][1] # imagePos[2][1]
              /\ imagePos[1][2] # imagePos[3][2]
        /\ (pc = "done" /\ Len(prfImages) = 4) => ret # Raise("AssertionError")

\* A call at a grid point, where the nearest position is at difference 0,
\* that has gone through interpolatePrf.
C16_Witness ==
    /\ Done("getPrfAtColRowFits")
    /\ args.col = 45 * Den
    /\ args.row = 2048 * Den
    /\ Len(prfImages) = 4
    /\ imagePos[1] = <<45, 2048>>
    /\ imagePos[4] = <<557, 1536>>
    /\ ret.kind = "ok"

\* An array that is not square, or whose side is no multiple of gridSize.
Malformed(shape) == shape[1] # shape[2] \/ shape[1] % gridSize # 0

\* The reads of this call that opened a file holding a malformed array.
MalformedLoads ==
    {k \in DOMAIN loads : /\ FitsError(disk, loads[k]) = "none"
                          /\ Malformed(FileShape(disk, loads[k]))}

\* C17: once a main function (called with a camera and a ccd in 1..4) has
\* read a file whose array is not square or has a side that is no multiple of
\* gridSize, the call has failed: it has ended in an error, and no image was
\* extracted from that array.
C17_MalformedArrayFails ==
    (/\ fn \in MainFunctions
     /\ args.camera \in 1..4
     /\ args.ccd \in 1..4
     /\ MalformedLoads # {}) =>
        /\ pc = "done"
        /\ ret.kind = "error"
        /\ Len(prfImages) <= Len(loads) - Cardinality(MalformedLoads)

\* The path segment of a sector.
SegmentOf(sector) == IF sector <= 3 THEN "/start_s0001/" ELSE "/start_s0004/"

\* A token goes with a segment: a 2018243163600 or ...601 token with
\* "/start_s0001/" only, a 2019107181900, ...901 or ...902 token with
\* "/start_s0004/" only.
TokenMatches(token, segment) ==
    /\ token \in {"2018243163600", "2018243163601"} <=> segment = "/start_s0001/"
    /\ token \in {"2019107181900", "2019107181901", "2019107181902"}
          <=> segment = "/start_s0004/"

\* C18: the add_path pathLookup returns is "/start_s0001/" for sectors 1 to 3
\* and "/start_s0004/" for every sector from 4 on, whatever the camera and
\* the ccd, and the datestring it returns matches it; the main functions
\* read their files with this path and this datestring.
C18_SegmentBySector ==
    /\ (Done("pathLookup") /\ ret.kind = "ok") =>
          /\ ret.val.add_path = SegmentOf(args.sector)
          /\ TokenMatches(ret.val.datestring, ret.val.add_path)
    /\ (fn \in MainFunctions /\ imagePos # <<>>) =>
          /\ path = <<BasePath, SegmentOf(args.sector)>>
          /\ TokenMatches(datestring, path[2])
          /\ \A k \in DOMAIN loads :
                /\ loads[k].path = <<BasePath, SegmentOf(args.sector)>>
                /\ TokenMatches(loads[k].date, loads[k].path[2])

\* The first sector of the second segment.
C18_Witness ==
    /\ Done("pathLookup")
    /\ args.sector = 4
    /\ args.camera = 3
    /\ args.ccd = 2
    /\ ret = Return([datestring |-> "2019107181902", add_path |-> "/start_s0004/"])

\* The table of epoch tokens.
TokenOf(ccd, camera, sector) ==
    IF sector <= 3
    THEN IF camera >= 3 \/ (camera = 2 /\ ccd = 4) THEN "2018243163601"
         ELSE "2018243163600"
    ELSE IF (camera = 1 /\ ccd >= 2) \/ camera = 2 THEN "2019107181901"
         ELSE IF (camera = 3 /\ ccd >= 2) \/ camera = 4 THEN "2019107181902"
         ELSE "2019107181900"

\* C19: for every ccd and camera in 1..4 and every sector from 1 on,
\* pathLookup returns the datestring of the table; from sector 4 on the
\* token 2019107181900 goes to camera 1 ccd 1 and camera 3 ccd 1 and to no
\* other detector; the main functions use the token of the table.
C19_TokenTable ==
    (/\ pc # "idle"
     /\ fn \in MainFunctions \cup {"pathLookup"}
     /\ args.ccd \in 1..4
     /\ args.camera \in 1..4
     /\ args.sector >= 1) =>
        LET token == TokenOf(args.ccd, args.camera, args.sector)
        IN  /\ token \in EpochTokens
            /\ (args.sector >= 4 /\ token = "2019107181900")
                  <=> (args.sector >= 4 /\ args.ccd = 1 /\ args.camera \in {1, 3})
            /\ Done("pathLookup") =>
                  ret.kind = "ok" /\ ret.val.datestring = token
            /\ fn \in MainFunctions =>
                  /\ datestring = token
                  /\ \A k \in DOMAIN loads : loads[k].date = token

\* The one ccd of camera 2 with the second token of the first sectors.
C19_Witness ==
    /\ Done("pathLookup")
    /\ args.sector = 3
    /\ args.camera = 2
    /\ args.ccd = 4
    /\ ret.kind = "ok"
    /\ ret.val.datestring = "2018243163601"

\* C20: every file a main function requests is named, for the k-th grid
\* point (c, r) of determineFourClosestPrfLoc,
\* cam<camera>_ccd<ccd>/tess<datestring>-prf-<camera>-<ccd>-row<r>-col<c>.fits
\* under the path of pathLookup: the directory and the name carry the camera
\* in the camera fields and the ccd in the ccd fields, the row field carries
\* r and the col field c.
C20_FileNameFields ==
    fn \in MainFunctions =>
        \A k \in DOMAIN loads :
            LET g == determineFourClosestPrfLoc(args.col, args.row)[k]
                lk == pathLookup(args.ccd, args.camera, args.sector).val
            IN  /\ loads[k].camDir = args.camera
                /\ loads[k].ccdDir = args.ccd
                /\ loads[k].date = lk.datestring
                /\ loads[k].cam = args.camera
                /\ loads[k].ccd = args.ccd
                /\ loads[k].row = g[2]
                /\ loads[k].col = g[1]
                /\ loads[k].path = <<BasePath, lk.add_path>>

\* Four files requested for a detector whose camera and ccd differ.
C20_Witness ==
    /\ Done("getPrfAtColRowFits")
    /\ args.ccd = 3
    /\ args.camera = 1
    /\ args.col = 1000 * Den + Den - 3
    /\ args.row = 1500 * Den + Den \div 2
    /\ Len(loads) = 4
    /\ loads[2].camDir = 1
    /\ loads[2].ccd = 3
    /\ loads[2].col = 557
    /\ loads[2].row = 1536
    /\ loads[3].col = 1069
    /\ loads[3].row = 1025

\* C21: getRegSampledPrfFitsByOffset called with colOffset >= gridSize or
\* rowOffset >= gridSize fails its assertion and returns no image, whatever
\* the array and the other offset.
C21_LargeOffsetFailsAssertion ==
    (/\ Done("getRegSampledPrfFitsByOffset")
     /\ (args.colOffset >= gridSize \/ args.rowOffset >= gridSize))
    => ret = Raise("AssertionError")

\* Only the row offset is too large, by the least amount, and the other
\* offset alone would have given an image.
C21_Witness ==
    /\ Done("getRegSampledPrfFitsByOffset")
    /\ args.rowOffset = gridSize
    /\ args.colOffset = 3
    /\ args.prfArray.shape = <<Side, Side>>
    /\ ret = Raise("AssertionError")
    /\ getRegSampledPrfFitsByOffset(args.prfArray, 3, 3).kind = "ok"

\* The list of grid points handed to interpolatePrf has equal columns in its
\* first two entries or equal rows in its first and third.
DegenerateList(g) == g[1][1] = g[2][1] \/ g[1][2] = g[3][2]

\* C22: interpolatePrf called with four images and a list of grid points with
\* c0 = c1 or r0 = r1 fails its assertion: it returns no image, and the
\* failure is that of the assertion whatever the four images are (the
\* weights are not computed and the images are not combined before it).
C22_DegenerateGridFailsAssertion ==
    (/\ Done("interpolatePrf")
     /\ Len(args.regPrfArray) = 4
     /\ DegenerateList(args.imagePos))
    => ret = Raise("AssertionError")

\* Equal rows only, with images of two shapes, which do not combine.
C22_Witness ==
    /\ Done("interpolatePrf")
    /\ args.imagePos[1][1] # args.imagePos[2][1]
    /\ args.imagePos[1][2] = args.imagePos[3][2]
    /\ args.regPrfArray[1].shape # args.regPrfArray[2].shape
    /\ ret = Raise("AssertionError")

\* The weights interpolatePrf forms for this call: (col - c0) / (c1 - c0) and
\* (row - r0) / (r1 - r0).
WeightCol == FDiv(args.col - args.imagePos[1][1] * Den,
                  (args.imagePos[2][1] - args.imagePos[1][1]) * Den)

WeightRow == FDiv(args.row - args.imagePos[1][2] * Den,
                  (args.imagePos[3][2] - args.imagePos[1][2]) * Den)

\* tmp1 + (tmp2 - tmp1) * dRow at pixel (i, j), tmp1 = p00 + (p10 - p00) * dCol,
\* tmp2 = p01 + (p11 - p01) * dCol, every operation rounded.
Bilinear(p, i, j, dCol, dRow) ==
    LET p00 == p[1].data[i][j]
        p10 == p[2].data[i][j]
        p01 == p[3].data[i][j]
        p11 == p[4].data[i][j]
        tmp1 == FAdd(p00, FMul(FSub(p10, p00), dCol))
        tmp2 == FAdd(p01, FMul(FSub(p11, p01), dCol))
    IN  FAdd(tmp1, FMul(FSub(tmp2, tmp1), dRow))

\* C23: the image interpolatePrf returns is, pixel by pixel,
\* tmp1 + (tmp2 - tmp1) * dRow with tmp1 = p00 + (p10 - p00) * dCol,
\* tmp2 = p01 + (p11 - p01) * dCol, dCol = (col - c0) / (c1 - c0),
\* dRow = (row - r0) / (r1 - r0), with the weights as they are also when they
\* lie outside [0, 1] (the result is then the linear extrapolation).
C23_BilinearUnclamped ==
    (Done("interpolatePrf") /\ ret.kind = "ok") =>
        /\ ret.val.shape = args.regPrfArray[1].shape
        /\ \A i \in 0..(ret.val.shape[1] - 1) : \A j \in 0..(ret.val.shape[2] - 1) :
              ret.val.data[i][j] = Bilinear(args.regPrfArray, i, j, WeightCol, WeightRow)

\* A location beyond the second column of the list: the column weight is
\* above 1 and a pixel of the result lies outside the range of the two
\* images it is extrapolated from (all four rows weigh 0 or 1 here).
C23_Witness ==
    /\ Done("interpolatePrf")
    /\ ret.kind = "ok"
    /\ WeightCol > One
    /\ WeightRow = One
    /\ \E i \in 0..(NPix - 1) : \E j \in 0..(NPix - 1) :
          /\ args.regPrfArray[3].data[i][j] < args.regPrfArray[4].data[i][j]
          /\ ret.val.data[i][j] > args.regPrfArray[4].data[i][j]

\* C24: no call leaves anything behind, and what a call of pathLookup,
\* getNearestPrfFits or getPrfAtColRowFits returns or raises is a function of
\* its arguments and of the content of the files alone, whatever calls came
\* before it: between two calls every variable of a call has its initial
\* value, and every finished call holds the result of that function.
C24_NoStateBetweenCalls ==
    /\ Idle =>
          /\ fn = "none" /\ args = <<>> /\ ret = NoResult
          /\ datestring = "" /\ path = <<BasePath, "">>
          /\ colOffset = 0 /\ rowOffset = 0
          /\ imagePos = <<>> /\ it = 1 /\ prfImages = <<>> /\ loads = <<>>
    /\ disk \in Disks
    /\ Done("pathLookup") => ret = pathLookup(args.ccd, args.camera, args.sector)
    /\ Done("getNearestPrfFits") =>
          ret = NearestResult(disk, args.col, args.row, args.ccd, args.camera,
                              args.sector)
    /\ Done("getPrfAtColRowFits") =>
          ret = InterpolatedResult(disk, args.col, args.row, args.ccd,
                                   args.camera, args.sector)

\* A successful call on a disk on which calls for other locations fail.
C24_Witness ==
    /\ Done("getPrfAtColRowFits")
    /\ disk.badKind = "missing"
    /\ ret.kind = "ok"
    /\ ret = InterpolatedResult(disk, args.col, args.row, args.ccd, args.camera,
                                args.sector)
    /\ InterpolatedResult(disk, 120 * Den + 6, 500 * Den, args.ccd, args.camera,
                          args.sector).kind = "error"

\* The fraction of n/Den in [0, 1), as a numerator over Den.
FractionOf(n) == CHOOSE f \in 0..(Den - 1) : (n - f) % Den = 0

\* k is gridSize * f/Den rounded to the nearest integer, a half to the even one.
IsRoundHalfEven(k, f) ==
    /\ 2 * Abs(gridSize * f - k * Den) <= Den
    /\ 2 * Abs(gridSize * f - k * Den) = Den => k % 2 = 0

\* C25: colOffset = gridSize - round(gridSize * (col mod 1)) - 1 with col mod 1
\* in [0, 1) also for a negative col and round rounding halves to even,
\* rowOffset the same of row; colOffset is the same for every row and
\* rowOffset for every col; a coordinate without fraction gets offset 8.
C25_OffsetFormula ==
    Done("getOffsetsFromPixelFractions") =>
        /\ IsRoundHalfEven(gridSize - 1 - ret.val[1], FractionOf(args.col))
        /\ IsRoundHalfEven(gridSize - 1 - ret.val[2], FractionOf(args.row))
        /\ \A x \in OffsetVals :
              /\ getOffsetsFromPixelFractions(args.col, x)[1] = ret.val[1]
              /\ getOffsetsFromPixelFractions(x, args.row)[2] = ret.val[2]
        /\ FractionOf(args.col) = 0 => ret.val[1] = 8
        /\ FractionOf(args.row) = 0 => ret.val[2] = 8

\* A negative column with fraction one half (9 * 0.5 = 4.5 rounds to 4) and
\* a row without fraction.
C25_Witness ==
    /\ Done("getOffsetsFromPixelFractions")
    /\ args.col = -2 * Den + Den \div 2
    /\ args.row = 120 * Den
    /\ ret.val = <<4, 8>>

\* C26: for every requested location (and a camera and a ccd in 1..4), every
\* index the main functions hand
\* to a well-formed array (side gridSize * NPix, 117 in the mission's files)
\* with their offsets, offset + gridSize * k for k = 0 .. NPix - 1, lies in
\* [0, side - 1]: none is negative and addresses the array from its end.
C26_IndicesInsideArray ==
    (/\ fn \in MainFunctions
     /\ args.camera \in 1..4
     /\ args.ccd \in 1..4
     /\ imagePos # <<>>) =>
        \A k \in 0..(NPix - 1) :
            /\ colOffset + gridSize * k \in 0..(Side - 1)
            /\ rowOffset + gridSize * k \in 0..(Side - 1)

\* The index of position v in the ascending list pos.
IndexIn(pos, v) == CHOOSE i \in DOMAIN pos : pos[i] = v

\* The two positions of pos selected for the location n/Den are neighbours
\* in pos, and the two outermost of its side when n/Den lies outside pos.
NeighboursIn(pos, n, first, second) ==
    /\ first \in {pos[i] : i \in DOMAIN pos}
    /\ second \in {pos[i] : i \in DOMAIN pos}
    /\ Abs(IndexIn(pos, first) - IndexIn(pos, second)) = 1
    /\ n < pos[1] * Den => <<first, second>> = <<pos[1], pos[2]>>
    /\ n > pos[Len(pos)] * Den =>
          <<first, second>> = <<pos[Len(pos)], pos[Len(pos) - 1]>>

\* C27: for every requested location the two rows of the list of
\* determineFourClosestPrfLoc are neighbours in 1, 513, 1025, 1536, 2048 and
\* its two columns neighbours in 45, 557, 1069, 1580, 2092; a location below
\* or above all positions gets the two outermost positions of that side.
C27_SelectedAreNeighbours ==
    Done("determineFourClosestPrfLoc") =>
        /\ NeighboursIn(<<1, 513, 1025, 1536, 2048>>, args.row,
                        ret.val[1][2], ret.val[3][2])
        /\ NeighboursIn(<<45, 557, 1069, 1580, 2092>>, args.col,
                        ret.val[1][1], ret.val[2][1])

\* A column right of the last position and a row just above an interior
\* position whose lower neighbour is the nearer one.
C27_Witness ==
    /\ Done("determineFourClosestPrfLoc")
    /\ args.col = 2200 * Den
    /\ args.row = 1536 * Den + 1
    /\ ret.val = << <<2092, 1536>>, <<1580, 1536>>, <<2092, 1025>>, <<1580, 1025>> >>

\* The weights of interpolatePrf in getPrfAtColRowFits as exact quotients
\* num / den with den > 0: (col - c0) / (c1 - c0) and (row - r0) / (r1 - r0).
ColWeightNum == (args.col - imagePos[1][1] * Den) * Sign(imagePos[2][1] - imagePos[1][1])

ColWeightDen == Abs(imagePos[2][1] - imagePos[1][1]) * Den

RowWeightNum == (args.row - imagePos[1][2] * Den) * Sign(imagePos[3][2] - imagePos[1][2])

RowWeightDen == Abs(imagePos[3][2] - imagePos[1][2]) * Den

\* C28: when getPrfAtColRowFits calls interpolatePrf, dCol <= 1/2 and
\* dRow <= 1/2; dCol >= 0 exactly when col is within [45, 2092] and dRow >= 0
\* exactly when row is within [1, 2048].
C28_WeightsAtMostHalf ==
    (/\ fn = "getPrfAtColRowFits"
     /\ args.camera \in 1..4
     /\ args.ccd \in 1..4
     /\ pc = "interpolate") =>
        /\ 2 * ColWeightNum <= ColWeightDen
        /\ 2 * RowWeightNum <= RowWeightDen
        /\ ColWeightNum >= 0 <=> (45 * Den <= args.col /\ args.col <= 2092 * Den)
        /\ RowWeightNum >= 0 <=> (1 * Den <= args.row /\ args.row <= 2048 * Den)

\* The pairs <<first, second>> of positions of pos that a sort of the absolute
\* differences to n/Den may put first and second, whatever it does with
\* equal differences.
NearestPairs(pos, n) ==
    LET dif(i) == Abs(pos[i] * Den - n)
    IN  {<<pos[i], pos[j]>> : <<i, j>> \in
            {x \in (DOMAIN pos) \X (DOMAIN pos) :
                /\ x[1] # x[2]
                /\ dif(x[1]) <= dif(x[2])
                /\ \A k \in DOMAIN pos \ {x[1], x[2]} : dif(x[2]) <= dif(k)}}

\* The lists of four grid points for the location of the call, one for every
\* way of ordering equal differences.
TieLists ==
    {<< <<c[1], r[1]>>, <<c[2], r[1]>>, <<c[1], r[2]>>, <<c[2], r[2]>> >> :
        c \in NearestPairs(posCols, args.col), r \in NearestPairs(posRows, args.row)}

\* The image extracted for grid point p of the call, at the call's offsets.
ExtractAt(p) ==
    getRegSampledPrfFitsByOffset(
        FitsOpen(disk, FileName(args.ccd, args.camera, p[1], p[2], path,
                                datestring)).val,
        colOffset, rowOffset)

\* All four files of list g open and give an image.
ListLoads(g) ==
    \A k \in 1..4 :
        /\ FitsError(disk, FileName(args.ccd, args.camera, g[k][1], g[k][2], path,
                                    datestring)) = "none"
        /\ ExtractAt(g[k]).kind = "ok"

\* What getPrfAtColRowFits returns when the list of grid points is g.
ResultWithList(g) ==
    interpolatePrf([k \in 1..4 |-> ExtractAt(g[k]).val], args.col, args.row, g)

ExactStep(a, b, t) == FMul(FSub(b, a), t) * One = (b - a) * t

\* interpolatePrf on the images of list g forms every weighted difference
\* without rounding error.
ExactRun(g) ==
    LET p == [k \in 1..4 |-> ExtractAt(g[k]).val]
        dCol == FDiv(args.col - g[1][1] * Den, (g[2][1] - g[1][1]) * Den)
        dRow == FDiv(args.row - g[1][2] * Den, (g[3][2] - g[1][2]) * Den)
    IN  \A i \in 0..(p[1].shape[1] - 1) : \A j \in 0..(p[1].shape[2] - 1) :
            /\ ExactStep(p[1].data[i][j], p[2].data[i][j], dCol)
            /\ ExactStep(p[3].data[i][j], p[4].data[i][j], dCol)
            /\ ExactStep(Lerp(p[1].data[i][j], p[2].data[i][j], dCol),
                         Lerp(p[3].data[i][j], p[4].data[i][j], dCol), dRow)

C30_LoadsInOrderOnce ==
    fn = "getPrfAtColRowFits" =>
        /\ Len(loads) <= 4
        /\ \A k \in 1..Len(loads) : loads[k] = NameOfArgs(k)
        /\ \A j \in 1..Len(loads) : \A k \in 1..Len(loads) :
              j # k => loads[j] # loads[k]
        /\ \A k \in FailedLoads :
              /\ k = Len(loads)
              /\ Len(prfImages) = k - 1
              /\ pc = "done"
              /\ ret = Raise(FitsError(disk, NameOfArgs(k)))

\* Reached: the third file fails to open after two files gave an image.
C30_Witness ==
    /\ Done("getPrfAtColRowFits")
    /\ Len(loads) = 3
    /\ \A k \in 1..3 : loads[k] = NameOfArgs(k)
    /\ FailedLoads = {3}
    /\ Len(prfImages) = 2
    /\ ret.kind = "error"

====
